---- MODULE Spec2Model ----
(***************************************************************************)
(* A model of two parts of the repository:                                 *)
(*                                                                         *)
(*  - UserDataProfilesMainService (electron-main/userDataProfile.ts): the  *)
(*    stored profile list, the stored workspace associations, the memoized *)
(*    profiles object, and createProfile / setProfileForWorkspace /        *)
(*    removeProfile as asynchronous operations that suspend at their        *)
(*    awaits and interleave there.                                         *)
(*                                                                         *)
(*  - The markdown table of contents (TableOfContents.buildToc) and the    *)
(*    document symbol provider built on it (MdDocumentSymbolProvider).     *)
(***************************************************************************)
EXTENDS Integers, Sequences, FiniteSets, TLC

VARIABLES
    storedProfiles,        \* state store, key 'userDataProfiles'
    storedWorskpaceInfos,  \* state store, key 'workspaceAndProfileInfo'
    profilesObjectMemo,    \* the field _profilesObject
    homeExists,            \* whether the folder profilesHome exists
    ops,                   \* the createProfile / removeProfile calls in flight
    associated,            \* history: per workspace, the location last associated
                           \* with it, and whether a removal of it committed since
    document,              \* the markdown document: its lines
    toc,                   \* the table of contents last built for it
    symbols,               \* the result of provideDocumentSymbols
    symbolInfos,           \* the result of provideDocumentSymbolInformation
    lookupResult           \* the last lookup: its fragment and what it found

profileVars == <<storedProfiles, storedWorskpaceInfos, profilesObjectMemo, homeExists, ops,
                 associated>>
tocVars == <<document, toc, symbols, symbolInfos, lookupResult>>
vars == <<storedProfiles, storedWorskpaceInfos, profilesObjectMemo, homeExists, ops,
          associated, document, toc, symbols, symbolInfos, lookupResult>>

----------------------------------------------------------------------------
(* Bounds and input sets *)

\* createProfile / removeProfile calls that may be in flight together
MaxOps == 2
\* promises the listeners of one will-create / will-remove event may join
MaxJoiners == 2

Slots == 1..MaxOps
Names == {"a", "b"}
Locations == {"L1", "L2"}
Workspaces == {"w1", "w2"}

\* the argument workspaceIdentifier left out
NoWorkspace == "none"
\* this.profilesHome
ProfilesHome == "profilesHome"
NoResource == "none"
\* undefined, where a record is expected
Undefined == [undefined |-> TRUE]

\* this.defaultProfile
DefaultProfile == [name |-> "default", location |-> "L0", isDefault |-> TRUE]

\* the profiles a caller passes in
NonDefaultProfiles == [name : Names, location : Locations, isDefault : {FALSE}]
InputProfiles == NonDefaultProfiles \cup {DefaultProfile}
\* profile objects that carry the isDefault flag, whatever their location
FlaggedProfiles == [name : Names, location : Locations, isDefault : {TRUE}]
RemoveInputs == InputProfiles \cup FlaggedProfiles

----------------------------------------------------------------------------
(* Sequence helpers: Array.prototype.filter / some / find *)

FilterSeq(s, Keep(_)) == SelectSeq(s, Keep)

SomeSeq(s, P(_)) == \E k \in 1..Len(s) : P(s[k])

\* the first element satisfying P, or Undefined
FindSeq(s, P(_)) ==
    IF SomeSeq(s, P)
    THEN s[CHOOSE k \in 1..Len(s) : P(s[k]) /\ \A j \in 1..(k - 1) : ~P(s[j])]
    ELSE Undefined

----------------------------------------------------------------------------
(* The profiles object *)

\* toUserDataProfile(name, location, useDefaultFlags) of a stored profile
ToUserDataProfile(stored) ==
    [name |-> stored.name, location |-> stored.location, isDefault |-> FALSE]

\* the getter profilesObject, computed from the state store
ComputeProfilesObject(sp, swi) ==
    LET profiles == <<DefaultProfile>> \o [k \in 1..Len(sp) |-> ToUserDataProfile(sp[k])]
        \* reduce over the stored infos: a later info of a workspace overrides
        RECURSIVE Reduce(_, _)
        Reduce(infos, workspaces) ==
            IF infos = <<>> THEN workspaces
            ELSE LET info == Head(infos)
                     profile == FindSeq(profiles, LAMBDA p : p.location = info.profile)
                 IN  Reduce(Tail(infos),
                            IF profile # Undefined
                            THEN [workspaces EXCEPT ![info.workspace] = profile]
                            ELSE workspaces)
    IN  [profiles |-> profiles,
         workspaces |-> Reduce(swi, [w \in Workspaces |-> Undefined])]

NotInvalidated(memo) == memo

\* this._profilesObject = undefined, in the setters of both persistence keys
Invalidate(memo) == Undefined

\* reading this.profilesObject: the memoized object, or a fresh one
ReadProfilesObject(memo, sp, swi) ==
    IF memo = Undefined THEN ComputeProfilesObject(sp, swi) ELSE memo

GetProfileDefault(memo, sp, swi, w) == DefaultProfile

\* getProfile(workspaceIdentifier)
GetProfile(memo, sp, swi, w) ==
    LET found == ReadProfilesObject(memo, sp, swi).workspaces[w]
    IN  IF found = Undefined THEN DefaultProfile ELSE found

NextWorkspaceInfosAppended(swi, profile, workspace) ==
    IF ~profile.isDefault
    THEN Append(swi, [workspace |-> workspace, profile |-> profile.location])
    ELSE swi

\* the body of setProfileForWorkspace up to its write of the infos
NextWorkspaceInfos(swi, profile, workspace) ==
    LET kept == FilterSeq(swi, LAMBDA info : info.workspace # workspace)
    IN  IF ~profile.isDefault
        THEN Append(kept, [workspace |-> workspace, profile |-> profile.location])
        ELSE kept

----------------------------------------------------------------------------
(* The history of the associations, kept for the properties only *)

NeverAssociated == [location |-> NoResource, removed |-> FALSE]

\* setProfileForWorkspace(profile, workspace) has written the infos
NowAssociated(h, profile, workspace) ==
    [h EXCEPT ![workspace] = [location |-> profile.location, removed |-> FALSE]]

\* removeProfile(profile) has written both keys
NowRemoved(h, profile) ==
    [w \in Workspaces |->
        IF h[w].location = profile.location THEN [h[w] EXCEPT !.removed = TRUE] ELSE h[w]]

----------------------------------------------------------------------------
(* Operations in flight *)

IdleOp == [kind |-> "none", pc |-> "idle", profile |-> DefaultProfile,
           workspace |-> NoWorkspace, joiners |-> <<>>, fired |-> 0,
           del |-> NoResource, error |-> "none"]

Free(i) == ops[i].pc \in {"idle", "done", "failed"}

\* a new call takes the first free place among S
FirstFree(S, i) == i \in S /\ Free(i) /\ \A j \in S : j < i => ~Free(j)

\* the promises the listeners join while the event is fired: at most J
JoinerLists(J) == UNION {[1..n -> {"pending"}] : n \in 0..J}

\* Promises.settled(joiners) has settled: every joined promise has
Settled(joiners) == \A k \in 1..Len(joiners) : joiners[k] # "pending"

\* Promises.settled(joiners) rejects: some joined promise rejected
Rejected(joiners) == \E k \in 1..Len(joiners) : joiners[k] = "rejected"

\* the event's listeners run and join their promises (Emitter.fire)
Fire(op, joiners) == [op EXCEPT !.joiners = joiners, !.fired = op.fired + 1]

JoinersNotAwaited(op) == TRUE

\* await Promises.settled(joiners) resumes or throws: all joiners have settled
JoinersAwaited(op) == Settled(op.joiners)

JoinNeverVetoed(op) == FALSE

\* await Promises.settled(joiners) throws: a listener's promise rejected
JoinVetoed(op) == Rejected(op.joiners)

\* a call that has ended: what it was, how it ended and what it deleted stay
\* readable until another call takes its place
Ended(op, pc, error) ==
    [IdleOp EXCEPT !.kind = op.kind, !.pc = pc, !.error = error, !.del = op.del,
                   !.fired = op.fired]

----------------------------------------------------------------------------
(* createProfile *)

NameExistsByLocation(sp, profile) == SomeSeq(sp, LAMBDA p : p.location = profile.location)

\* storedProfiles.some(p => p.name === profile.name)
NameExists(sp, profile) == SomeSeq(sp, LAMBDA p : p.name = profile.name)

\* the stored form of a profile, and the list createProfile writes
StoredProfileOf(profile) == [name |-> profile.name, location |-> profile.location]

OnlyStoredProfile(sp, profile) == <<StoredProfileOf(profile)>>

\* [...this.storedProfiles, storedProfile]
AppendStoredProfile(sp, profile) == Append(sp, StoredProfileOf(profile))

\* createProfile(profile, workspaceIdentifier?) up to its first await
CreateProfile(S, i, profile, workspace) ==
    /\ FirstFree(S, i)
    /\ LET op == [IdleOp EXCEPT !.kind = "create", !.profile = profile,
                                !.workspace = workspace]
       IN  IF NameExists(storedProfiles, profile)
           THEN ops' = [ops EXCEPT ![i] = Ended(op, "failed", "exists")]
           ELSE ops' = [ops EXCEPT ![i] = [op EXCEPT !.pc = "exists"]]
    /\ UNCHANGED <<storedProfiles, storedWorskpaceInfos, profilesObjectMemo, homeExists>>
    /\ UNCHANGED associated
    /\ UNCHANGED tocVars

\* fileService.exists(profilesHome) answers: the event is fired, or the folder
\* is asked for first
CreateAfterExists(i, J) ==
    /\ ops[i].kind = "create" /\ ops[i].pc = "exists"
    /\ IF homeExists
       THEN \E joiners \in JoinerLists(J) :
                ops' = [ops EXCEPT ![i] = [Fire(ops[i], joiners) EXCEPT !.pc = "joining"]]
       ELSE ops' = [ops EXCEPT ![i].pc = "createFolder"]
    /\ UNCHANGED <<storedProfiles, storedWorskpaceInfos, profilesObjectMemo, homeExists>>
    /\ UNCHANGED associated
    /\ UNCHANGED tocVars

\* fileService.createFolder(profilesHome) is done: the event is fired
CreateAfterCreateFolder(i, J) ==
    /\ ops[i].kind = "create" /\ ops[i].pc = "createFolder"
    /\ homeExists' = TRUE
    /\ \E joiners \in JoinerLists(J) :
           ops' = [ops EXCEPT ![i] = [Fire(ops[i], joiners) EXCEPT !.pc = "joining"]]
    /\ UNCHANGED <<storedProfiles, storedWorskpaceInfos, profilesObjectMemo>>
    /\ UNCHANGED associated
    /\ UNCHANGED tocVars

\* a promise joined by a listener resolves or rejects
SettleJoiner(i, k, outcome) ==
    /\ ops[i].pc = "joining"
    /\ k \in 1..Len(ops[i].joiners)
    /\ ops[i].joiners[k] = "pending"
    /\ ops' = [ops EXCEPT ![i].joiners[k] = outcome]
    /\ UNCHANGED <<storedProfiles, storedWorskpaceInfos, profilesObjectMemo, homeExists>>
    /\ UNCHANGED associated
    /\ UNCHANGED tocVars

\* createProfile after await Promises.settled(joiners): the writes
CreateAfterJoin(i) ==
    /\ ops[i].kind = "create" /\ ops[i].pc = "joining"
    /\ JoinersAwaited(ops[i])
    /\ IF JoinVetoed(ops[i])
       THEN /\ ops' = [ops EXCEPT ![i] = Ended(ops[i], "failed", "veto")]
            /\ UNCHANGED <<storedProfiles, storedWorskpaceInfos, profilesObjectMemo>>
            /\ UNCHANGED associated
       ELSE LET sp == AppendStoredProfile(storedProfiles, ops[i].profile)
                w == ops[i].workspace
                swi == IF w # NoWorkspace
                       THEN NextWorkspaceInfos(storedWorskpaceInfos, ops[i].profile, w)
                       ELSE storedWorskpaceInfos
            IN  /\ storedProfiles' = sp
                /\ storedWorskpaceInfos' = swi
                \* the setter of storedProfiles reads this.profiles; with a
                \* workspace, setProfileForWorkspace reads profilesObject again
                /\ profilesObjectMemo' =
                       ReadProfilesObject(Invalidate(profilesObjectMemo), sp, swi)
                /\ IF w # NoWorkspace
                   THEN /\ ops' = [ops EXCEPT ![i].pc = "return"]
                        /\ associated' = NowAssociated(associated, ops[i].profile, w)
                   ELSE /\ ops' = [ops EXCEPT ![i] = Ended(ops[i], "done", "none")]
                        /\ UNCHANGED associated
    /\ UNCHANGED homeExists
    /\ UNCHANGED tocVars

\* createProfile after await this.setProfileForWorkspace(...): the return
CreateReturn(i) ==
    /\ ops[i].kind = "create" /\ ops[i].pc = "return"
    /\ profilesObjectMemo' =
           ReadProfilesObject(profilesObjectMemo, storedProfiles, storedWorskpaceInfos)
    /\ ops' = [ops EXCEPT ![i] = Ended(ops[i], "done", "none")]
    /\ UNCHANGED <<storedProfiles, storedWorskpaceInfos, homeExists>>
    /\ UNCHANGED associated
    /\ UNCHANGED tocVars

----------------------------------------------------------------------------
(* setProfileForWorkspace: no await in it, one step *)

SetProfileForWorkspace(profile, workspace) ==
    /\ storedWorskpaceInfos' = NextWorkspaceInfos(storedWorskpaceInfos, profile, workspace)
    \* the setter invalidates, the return statement reads profilesObject
    /\ profilesObjectMemo' = ReadProfilesObject(Invalidate(profilesObjectMemo),
                                                storedProfiles, storedWorskpaceInfos')
    /\ associated' = NowAssociated(associated, profile, workspace)
    /\ UNCHANGED <<storedProfiles, homeExists, ops>>
    /\ UNCHANGED tocVars

----------------------------------------------------------------------------
(* removeProfile *)

IsDefaultProfileByLocation(profile) == profile.location = DefaultProfile.location

\* profile.isDefault, the first check of removeProfile
IsDefaultProfile(profile) == profile.isDefault

LocationStoredByName(sp, profile) == SomeSeq(sp, LAMBDA p : p.name = profile.name)

\* storedProfiles.some(p => isEqual(p.location, profile.location))
LocationStored(sp, profile) == SomeSeq(sp, LAMBDA p : p.location = profile.location)

DelTargetOwnLocation(profiles, profile) == profile.location

\* the resource removeProfile deletes
DelTarget(profiles, profile) ==
    IF Len(profiles) = 2 THEN ProfilesHome ELSE profile.location

WithoutProfileInfosKept(swi, profile) == swi

\* the two filters removeProfile writes
WithoutProfileInfos(swi, profile) ==
    FilterSeq(swi, LAMBDA info : info.profile # profile.location)

WithoutProfile(sp, profile) ==
    FilterSeq(sp, LAMBDA p : p.location # profile.location)

\* removeProfile(profile) up to its first await
RemoveProfile(S, i, profile, J) ==
    /\ FirstFree(S, i)
    /\ LET op == [IdleOp EXCEPT !.kind = "remove", !.profile = profile]
       IN  IF IsDefaultProfile(profile)
           THEN ops' = [ops EXCEPT ![i] = Ended(op, "failed", "default")]
           ELSE IF ~LocationStored(storedProfiles, profile)
           THEN ops' = [ops EXCEPT ![i] = Ended(op, "failed", "missing")]
           ELSE \E joiners \in JoinerLists(J) :
                    ops' = [ops EXCEPT ![i] = [Fire(op, joiners) EXCEPT !.pc = "joining"]]
    /\ UNCHANGED <<storedProfiles, storedWorskpaceInfos, profilesObjectMemo, homeExists>>
    /\ UNCHANGED associated
    /\ UNCHANGED tocVars

\* removeProfile after await Promises.settled(joiners): what to delete
RemoveAfterJoin(i) ==
    /\ ops[i].kind = "remove" /\ ops[i].pc = "joining"
    /\ JoinersAwaited(ops[i])
    /\ IF JoinVetoed(ops[i])
       THEN /\ ops' = [ops EXCEPT ![i] = Ended(ops[i], "failed", "veto")]
            /\ UNCHANGED profilesObjectMemo
       ELSE LET object == ReadProfilesObject(profilesObjectMemo, storedProfiles,
                                             storedWorskpaceInfos)
            IN  /\ profilesObjectMemo' = object
                /\ ops' = [ops EXCEPT ![i].pc = "del",
                                      ![i].del = DelTarget(object.profiles, ops[i].profile)]
    /\ UNCHANGED <<storedProfiles, storedWorskpaceInfos, homeExists>>
    /\ UNCHANGED associated
    /\ UNCHANGED tocVars

\* fileService.del(resource, { recursive: true }) takes effect
FileServiceDel(i) ==
    /\ ops[i].kind = "remove" /\ ops[i].pc = "del"
    /\ homeExists' = IF ops[i].del = ProfilesHome THEN FALSE ELSE homeExists
    /\ ops' = [ops EXCEPT ![i].pc = "deleted"]
    /\ UNCHANGED <<storedProfiles, storedWorskpaceInfos, profilesObjectMemo>>
    /\ UNCHANGED associated
    /\ UNCHANGED tocVars

\* removeProfile after await fileService.del(...): the writes
RemoveAfterDel(i) ==
    /\ ops[i].kind = "remove" /\ ops[i].pc = "deleted"
    /\ LET swi == WithoutProfileInfos(storedWorskpaceInfos, ops[i].profile)
           sp == WithoutProfile(storedProfiles, ops[i].profile)
       IN  /\ storedWorskpaceInfos' = swi
           /\ storedProfiles' = sp
           \* both setters invalidate; the setter of storedProfiles fires
           \* onDidChangeProfiles with this.profiles, a read
           /\ profilesObjectMemo' =
                  ReadProfilesObject(Invalidate(profilesObjectMemo), sp, swi)
    /\ associated' = NowRemoved(associated, ops[i].profile)
    /\ ops' = [ops EXCEPT ![i] = Ended(ops[i], "done", "none")]
    /\ UNCHANGED homeExists
    /\ UNCHANGED tocVars

----------------------------------------------------------------------------
(* The profiles service *)

InitProfiles ==
    /\ storedProfiles = <<>>
    /\ storedWorskpaceInfos = <<>>
    /\ profilesObjectMemo = Undefined
    /\ homeExists = FALSE
    /\ ops = [i \in Slots |-> IdleOp]
    /\ associated = [w \in Workspaces |-> NeverAssociated]

NoDocument ==
    /\ document = <<>>
    /\ toc = [computed |-> FALSE]
    /\ symbols = [computed |-> FALSE]
    /\ symbolInfos = [computed |-> FALSE]
    /\ lookupResult = [computed |-> FALSE]

Init == InitProfiles /\ NoDocument

\* the calls of S, with at most J promises joined per event
NextProfiles(S, J) ==
    \/ \E i \in S, profile \in NonDefaultProfiles,
          workspace \in Workspaces \cup {NoWorkspace} : CreateProfile(S, i, profile, workspace)
    \/ \E i \in S : CreateAfterExists(i, J)
    \/ \E i \in S : CreateAfterCreateFolder(i, J)
    \/ \E i \in S, k \in 1..J, outcome \in {"resolved", "rejected"} :
          SettleJoiner(i, k, outcome)
    \/ \E i \in S : CreateAfterJoin(i)
    \/ \E i \in S : CreateReturn(i)
    \/ \E profile \in InputProfiles, workspace \in Workspaces :
          SetProfileForWorkspace(profile, workspace)
    \/ \E i \in S, profile \in RemoveInputs : RemoveProfile(S, i, profile, J)
    \/ \E i \in S : RemoveAfterJoin(i)
    \/ \E i \in S : FileServiceDel(i)
    \/ \E i \in S : RemoveAfterDel(i)

\* one createProfile or removeProfile call at a time; setProfileForWorkspace
\* may be called while it is suspended
Next == NextProfiles({1}, MaxJoiners)

Spec == Init /\ [][Next]_vars

----------------------------------------------------------------------------
(* Properties of the profiles service *)

\* the slots of Spec
OneCall == {1}

StoresUnchanged == UNCHANGED <<storedProfiles, storedWorskpaceInfos>>

\* C1: removeProfile of a profile whose isDefault flag is set fails in every
\* state: the call ends failed, its event is not fired, it deletes nothing,
\* and the stored profiles and associations are as before.
C1_RemoveDefaultFails ==
    [][\A i \in OneCall, profile \in RemoveInputs :
          (profile.isDefault /\ RemoveProfile(OneCall, i, profile, MaxJoiners)) =>
              /\ ops'[i].kind = "remove" /\ ops'[i].pc = "failed"
              /\ ops'[i].fired = 0
              /\ ops'[i].del = NoResource
              /\ homeExists' = homeExists
              /\ StoresUnchanged]_vars

\* a removal of a flagged profile has failed while its location is stored and
\* the profiles folder exists
C1_Witness ==
    /\ ops[1].kind = "remove" /\ ops[1].pc = "failed" /\ ops[1].error = "default"
    /\ storedProfiles # <<>>
    /\ homeExists

\* C2: a removeProfile of a stored non-default profile deletes profilesHome
\* when it is the only stored profile and the profile's own location when
\* another is stored, the delete removes the profiles folder in the first case
\* only, and after the call no stored profile has the profile's location.
C2_RemoveDeletesRootOrOwn ==
    [][\A i \in OneCall :
          /\ (ops[i].kind = "remove" /\ ops[i].pc = "joining" /\ ops'[i].pc = "del") =>
                 /\ Len(storedProfiles) = 1 => ops'[i].del = ProfilesHome
                 /\ Len(storedProfiles) >= 2 => ops'[i].del = ops[i].profile.location
          /\ (ops[i].kind = "remove" /\ ops[i].pc = "del" /\ ops'[i].pc = "deleted") =>
                 homeExists' = (homeExists /\ Len(storedProfiles) >= 2)
          /\ (ops[i].kind = "remove" /\ ops[i].pc = "deleted" /\ ops'[i].pc = "done") =>
                 /\ \A k \in 1..Len(storedProfiles') :
                        storedProfiles'[k].location # ops[i].profile.location
                 /\ Len(storedProfiles') < Len(storedProfiles)]_vars

\* the removal of the last stored profile has deleted profilesHome
C2_Witness ==
    /\ ops[1].kind = "remove" /\ ops[1].pc = "done" /\ ops[1].del = ProfilesHome
    /\ storedProfiles = <<>>
    /\ ~homeExists

\* C3: a call that has passed validation has fired its event once when it
\* writes, and a step of a call that writes the stored profiles or the stored
\* associations, or deletes, is taken only with every joined promise settled.
C3_CommitAfterJoinersSettle ==
    [][\A i \in OneCall :
          (/\ ops'[i] # ops[i]
           /\ ops[i].pc \notin {"idle", "done", "failed"}
           /\ \/ storedProfiles' # storedProfiles
              \/ storedWorskpaceInfos' # storedWorskpaceInfos
              \/ ops'[i].del # NoResource
              \/ ops'[i].pc = "done") =>
              /\ ops[i].fired = 1 /\ ops'[i].fired = 1
              /\ \A k \in 1..Len(ops[i].joiners) : ops[i].joiners[k] # "pending"]_vars

\* a createProfile with a workspace has written after two joined promises
\* resolved
C3_Witness ==
    /\ ops[1].kind = "create" /\ ops[1].pc = "return"
    /\ Len(ops[1].joiners) = 2
    /\ storedProfiles # <<>> /\ storedWorskpaceInfos # <<>>

\* C4: once a promise joined during the event of a call has rejected, the call
\* can only end failed: none of its steps writes the stored profiles or the
\* stored associations, deletes, or changes the profiles folder.
C4_RejectedJoinerVetoes ==
    [][\A i \in OneCall :
          (/\ ops[i].pc = "joining"
           /\ \E k \in 1..Len(ops[i].joiners) : ops[i].joiners[k] = "rejected"
           /\ ops'[i] # ops[i]) =>
              /\ ops'[i].pc \in {"joining", "failed"}
              /\ ops'[i].kind = ops[i].kind
              /\ ops'[i].del = NoResource
              /\ homeExists' = homeExists
              /\ StoresUnchanged]_vars

\* a removeProfile has been vetoed, and the profile is still stored
C4_Witness ==
    /\ ops[1].kind = "remove" /\ ops[1].pc = "failed" /\ ops[1].error = "veto"
    /\ ops[1].fired = 1
    /\ storedProfiles # <<>>

\* C5: createProfile with the name of a stored profile fails at once: the call
\* ends failed, profilesHome is not created, the event is not fired, and the
\* stored profiles and associations are as before, with or without a workspace.
C5_CreateDuplicateNameFails ==
    [][\A i \in OneCall, profile \in NonDefaultProfiles,
          workspace \in Workspaces \cup {NoWorkspace} :
          (/\ \E k \in 1..Len(storedProfiles) : storedProfiles[k].name = profile.name
           /\ CreateProfile(OneCall, i, profile, workspace)) =>
              /\ ops'[i].kind = "create" /\ ops'[i].pc = "failed"
              /\ ops'[i].fired = 0
              /\ homeExists' = homeExists
              /\ StoresUnchanged]_vars

\* a createProfile has failed on its name while two profiles are stored
C5_Witness ==
    /\ ops[1].kind = "create" /\ ops[1].pc = "failed" /\ ops[1].error = "exists"
    /\ Len(storedProfiles) = 2
    /\ homeExists

\* C6: removeProfile of a non-default profile whose location no stored profile
\* has fails at once: the call ends failed, the event is not fired, nothing is
\* deleted, and the stored profiles and associations are as before.
C6_RemoveUnknownFails ==
    [][\A i \in OneCall, profile \in NonDefaultProfiles :
          (/\ \A k \in 1..Len(storedProfiles) : storedProfiles[k].location # profile.location
           /\ RemoveProfile(OneCall, i, profile, MaxJoiners)) =>
              /\ ops'[i].kind = "remove" /\ ops'[i].pc = "failed"
              /\ ops'[i].fired = 0
              /\ ops'[i].del = NoResource
              /\ homeExists' = homeExists
              /\ StoresUnchanged]_vars

\* a removeProfile has failed on its location while another profile is stored
C6_Witness ==
    /\ ops[1].kind = "remove" /\ ops[1].pc = "failed" /\ ops[1].error = "missing"
    /\ storedProfiles # <<>>

----------------------------------------------------------------------------
(* Markdown documents *)

\* blocks a document is made of, at most
MaxBlocks == 4

\* a line of the document: its text, one character per element, and the
\* markup of the heading_open token the parser reports for it (none: empty)
Line(text, markup) == [text |-> text, markup |-> markup]

\* the blocks documents are made of: ATX headings of three levels, a heading
\* with no text, setext headings with their underlines, a paragraph
Blocks ==
    { <<Line(<<"#", " ", "a">>, <<"#">>)>>,
      <<Line(<<"#", "#", " ", "A">>, <<"#", "#">>)>>,
      <<Line(<<"#", "#", "#", " ", "a", "-", "1">>, <<"#", "#", "#">>)>>,
      <<Line(<<"#">>, <<"#">>)>>,
      <<Line(<<"a", " ", "1">>, <<"=">>), Line(<<"=", "=">>, <<>>)>>,
      <<Line(<<"A">>, <<"-">>), Line(<<"-", "-">>, <<>>)>>,
      <<Line(<<"b">>, <<>>), Line(<<>>, <<>>)>> }

RECURSIVE Concat(_)
Concat(blocks) == IF blocks = <<>> THEN <<>> ELSE Head(blocks) \o Concat(Tail(blocks))

Documents == {Concat(bs) : bs \in UNION {[1..n -> Blocks] : n \in 0..MaxBlocks}}

\* the fragments looked up
Fragments == { <<"A", " ", "1">> }

----------------------------------------------------------------------------
(* Strings *)

IsWhitespace(c) == c = " "

LowerCase(c) == IF c = "A" THEN "a" ELSE IF c = "B" THEN "b" ELSE c

\* the punctuation the slugifier removes, as far as documents hold it
IsPunctuation(c) == c \in {"#", "="}

RECURSIVE TrimStart(_)
TrimStart(str) ==
    IF str # <<>> /\ IsWhitespace(Head(str)) THEN TrimStart(Tail(str)) ELSE str

RECURSIVE TrimEnd(_)
TrimEnd(str) ==
    IF str # <<>> /\ IsWhitespace(str[Len(str)])
    THEN TrimEnd(SubSeq(str, 1, Len(str) - 1)) ELSE str

Trim(str) == TrimEnd(TrimStart(str))

ToLowerCase(str) == [k \in 1..Len(str) |-> LowerCase(str[k])]

\* replace(/\s+/g, '-')
RECURSIVE WhitespaceToDash(_)
WhitespaceToDash(str) ==
    IF str = <<>> THEN <<>>
    ELSE IF IsWhitespace(Head(str))
         THEN <<"-">> \o WhitespaceToDash(TrimStart(str))
         ELSE <<Head(str)>> \o WhitespaceToDash(Tail(str))

RemovePunctuation(str) == SelectSeq(str, LAMBDA c : ~IsPunctuation(c))

\* replace(/^\-+/, '') and replace(/\-+$/, '')
RECURSIVE StripLeadingDashes(_)
StripLeadingDashes(str) ==
    IF str # <<>> /\ Head(str) = "-" THEN StripLeadingDashes(Tail(str)) ELSE str

RECURSIVE StripTrailingDashes(_)
StripTrailingDashes(str) ==
    IF str # <<>> /\ str[Len(str)] = "-"
    THEN StripTrailingDashes(SubSeq(str, 1, Len(str) - 1)) ELSE str

\* slugifier.fromHeading(heading): the value of the slug
Slugify(heading) ==
    StripTrailingDashes(StripLeadingDashes(RemovePunctuation(
        WhitespaceToDash(ToLowerCase(Trim(heading))))))

Digits == <<"0", "1", "2", "3", "4", "5", "6", "7", "8", "9">>

\* a count as the string that + makes of it
RECURSIVE NumberToString(_)
NumberToString(n) ==
    IF n < 10 THEN <<Digits[n + 1]>>
    ELSE NumberToString(n \div 10) \o <<Digits[(n % 10) + 1]>>

----------------------------------------------------------------------------
(* TableOfContents.buildToc *)

\* the tokens of type heading_open: the line each starts at (map[0]) and its markup
RECURSIVE HeadingTokens(_, _)
HeadingTokens(doc, k) ==
    IF k > Len(doc) THEN <<>>
    ELSE (IF doc[k].markup # <<>>
          THEN <<[line |-> k - 1, markup |-> doc[k].markup]>> ELSE <<>>)
         \o HeadingTokens(doc, k + 1)

\* document.lineAt(lineNumber).text, lines counted from 0
LineText(doc, lineNumber) == doc[lineNumber + 1].text

\* getHeaderLevel(markup)
GetHeaderLevel(markup) ==
    IF markup = <<"=">> THEN 1 ELSE IF markup = <<"-">> THEN 2 ELSE Len(markup)

\* getHeaderText(header): the text between the opening #s and a closing run of #s
RECURSIVE DropHashes(_)
DropHashes(str) == IF str # <<>> /\ Head(str) = "#" THEN DropHashes(Tail(str)) ELSE str

RECURSIVE DropHashesEnd(_)
DropHashesEnd(str) ==
    IF str # <<>> /\ str[Len(str)] = "#"
    THEN DropHashesEnd(SubSeq(str, 1, Len(str) - 1)) ELSE str

GetHeaderText(header) ==
    LET lead == TrimStart(header)
    IN  IF lead = <<>> \/ Head(lead) # "#" THEN header
        ELSE LET rest == TrimStart(DropHashes(lead))
                 open == DropHashesEnd(rest)
                 \* a closing run (\s+#+)? : #s at the end, after whitespace
                 closed == open # rest /\ open # <<>> /\ IsWhitespace(open[Len(open)])
             IN  Trim(IF closed THEN open ELSE rest)

SlugCountNotIncremented(count) == 1

\* ++existingSlugEntry.count
NextSlugCount(count) == count + 1

\* slugifier.fromHeading(slug.value + '-' + existingSlugEntry.count)
DisambiguatedSlug(slug, count) == Slugify(slug \o <<"-">> \o NumberToString(count))

\* the loop over the heading tokens: the entries so far and existingSlugEntries
RECURSIVE TocLoop(_, _, _, _)
TocLoop(doc, tokens, entries, existingSlugEntries) ==
    IF tokens = <<>> THEN entries
    ELSE LET heading == Head(tokens)
             lineNumber == heading.line
             text == LineText(doc, lineNumber)
             slug == Slugify(text)
             existing == slug \in DOMAIN existingSlugEntries
             count == IF existing THEN NextSlugCount(existingSlugEntries[slug]) ELSE 0
             headerLocation == [startLine |-> lineNumber, startCharacter |-> 0,
                                endLine |-> lineNumber, endCharacter |-> Len(text)]
             entry == [slug |-> IF existing THEN DisambiguatedSlug(slug, count) ELSE slug,
                       text |-> GetHeaderText(text),
                       level |-> GetHeaderLevel(heading.markup),
                       line |-> lineNumber,
                       sectionLocation |-> headerLocation,
                       headerLocation |-> headerLocation]
         IN  TocLoop(doc, Tail(tokens), Append(entries, entry),
                     [s \in DOMAIN existingSlugEntries \cup {slug} |->
                         IF s = slug THEN count ELSE existingSlugEntries[s]])

EndsSectionStrictlyLower(later, entry) == later.level < entry.level

\* toc[i].level <= entry.level: the heading toc[i] ends the section of entry
EndsSection(later, entry) == later.level <= entry.level

\* the line a section ends at: the line before the first heading that ends
\* it, or the last line of the document
RECURSIVE FindEnd(_, _, _)
FindEnd(entries, entry, i) ==
    IF i > Len(entries) THEN -1
    ELSE IF EndsSection(entries[i], entry) THEN entries[i].line - 1
         ELSE FindEnd(entries, entry, i + 1)

SectionEndLineOfDocument(entries, startIndex, lineCount) == lineCount - 1

\* the end line of the section of entry startIndex
SectionEndLine(entries, startIndex, lineCount) ==
    LET end == FindEnd(entries, entries[startIndex], startIndex + 1)
    IN  IF end = -1 THEN lineCount - 1 ELSE end

\* buildToc(parser, document)
BuildToc(doc) ==
    LET entries == TocLoop(doc, HeadingTokens(doc, 1), <<>>, <<>>)
    IN  [startIndex \in 1..Len(entries) |->
            LET entry == entries[startIndex]
                endLine == SectionEndLine(entries, startIndex, Len(doc))
            IN  [entry EXCEPT !.sectionLocation =
                    [startLine |-> entry.sectionLocation.startLine,
                     startCharacter |-> entry.sectionLocation.startCharacter,
                     endLine |-> endLine,
                     endCharacter |-> Len(LineText(doc, endLine))]]]

----------------------------------------------------------------------------
(* MdDocumentSymbolProvider *)

\* a result not computed yet
NotComputed == [computed |-> FALSE]

RECURSIVE Repeat(_, _)
Repeat(c, n) == IF n = 0 THEN <<>> ELSE <<c>> \o Repeat(c, n - 1)

\* getSymbolName(entry)
GetSymbolName(entry) == Repeat("#", entry.level) \o <<" ">> \o entry.text

\* toSymbolInformation(entry)
ToSymbolInformation(entry) ==
    [name |-> GetSymbolName(entry), location |-> entry.sectionLocation]

ToDocumentSymbolOfHeader(entry) ==
    [name |-> GetSymbolName(entry), range |-> entry.headerLocation,
     selectionRange |-> entry.headerLocation]

\* toDocumentSymbol(entry), its children apart
ToDocumentSymbol(entry) ==
    [name |-> GetSymbolName(entry), range |-> entry.sectionLocation,
     selectionRange |-> entry.sectionLocation]

NestsUnderLevelBelow(entries, entry, parent) ==
    parent # 0 /\ entry.level < entries[parent].level

\* entry.level <= parent.level, for the MarkdownSymbol of entry number parent;
\* the root, number 0, has level -Infinity
NestsAbove(entries, entry, parent) ==
    parent # 0 /\ entry.level <= entries[parent].level

\* while (entry.level <= parent.level) { parent = parent.parent }
RECURSIVE Ascend(_, _, _, _)
Ascend(entries, entry, parent, parentOf) ==
    IF NestsAbove(entries, entry, parent)
    THEN Ascend(entries, entry, parentOf[parent], parentOf)
    ELSE parent

\* buildTree(parent, entries.slice(k - 1)): children[p] lists the entries whose
\* symbols are pushed to the children of p, parentOf[k] is the field parent of
\* the MarkdownSymbol made for entry k
RECURSIVE BuildTree(_, _, _, _, _)
BuildTree(entries, k, parent, children, parentOf) ==
    IF k > Len(entries) THEN children
    ELSE LET p == Ascend(entries, entries[k], parent, parentOf)
         IN  BuildTree(entries, k + 1, k,
                       [children EXCEPT ![p] = Append(@, k)],
                       [parentOf EXCEPT ![k] = p])

\* provideDocumentSymbols(document): the symbols, and the tree as the list of
\* children of the root (0) and of every symbol
ProvideSymbols(entries) ==
    [computed |-> TRUE,
     symbols |-> [k \in 1..Len(entries) |-> ToDocumentSymbol(entries[k])],
     children |-> BuildTree(entries, 1, 0, [p \in 0..Len(entries) |-> <<>>],
                            [k \in 1..Len(entries) |-> 0])]

\* TableOfContents.lookup(fragment): the first entry of that slug
LookupEntry(entries, fragment) ==
    LET slug == Slugify(fragment)
        found == {k \in 1..Len(entries) : entries[k].slug = slug}
    IN  IF found = {} THEN 0 ELSE CHOOSE k \in found : \A j \in found : k <= j

\* tocProvider.getForDocument(document): the cached table, or a new one
TocEntries == IF toc.computed THEN toc.entries ELSE BuildToc(document)

GetForDocument ==
    /\ toc' = [computed |-> TRUE, entries |-> TocEntries]
    /\ UNCHANGED <<document, symbols, symbolInfos, lookupResult>>
    /\ UNCHANGED profileVars

ProvideDocumentSymbolInformation ==
    /\ toc' = [computed |-> TRUE, entries |-> TocEntries]
    /\ symbolInfos' = [computed |-> TRUE,
                       infos |-> [k \in 1..Len(TocEntries) |->
                                     ToSymbolInformation(TocEntries[k])]]
    /\ UNCHANGED <<document, symbols, lookupResult>>
    /\ UNCHANGED profileVars

ProvideDocumentSymbols ==
    /\ toc' = [computed |-> TRUE, entries |-> TocEntries]
    /\ symbols' = ProvideSymbols(TocEntries)
    /\ UNCHANGED <<document, symbolInfos, lookupResult>>
    /\ UNCHANGED profileVars

Lookup(fragment) ==
    /\ toc.computed
    /\ lookupResult' = [computed |-> TRUE, fragment |-> fragment,
                        found |-> LookupEntry(toc.entries, fragment)]
    /\ UNCHANGED <<document, toc, symbols, symbolInfos>>
    /\ UNCHANGED profileVars

InitToc ==
    /\ document \in Documents
    /\ toc = NotComputed
    /\ symbols = NotComputed
    /\ symbolInfos = NotComputed
    /\ lookupResult = NotComputed

NextToc ==
    \/ GetForDocument
    \/ ProvideDocumentSymbolInformation
    \/ ProvideDocumentSymbols
    \/ \E fragment \in Fragments : Lookup(fragment)

\* the table of contents and the symbols of any document
InitDocuments == InitProfiles /\ InitToc

SpecToc == InitDocuments /\ [][NextToc]_vars

----------------------------------------------------------------------------
(* Properties of the table of contents and of the symbol tree *)

\* the least element of a non-empty set of numbers
Least(S) == CHOOSE x \in S : \A y \in S : x <= y

\* the greatest element of a non-empty set of numbers
Greatest(S) == CHOOSE x \in S : \A y \in S : x >= y

\* the later entries that end the section of entry e: level at most its own
LaterNotDeeper(entries, e) ==
    {j \in (e + 1)..Len(entries) : entries[j].level <= entries[e].level}

\* C7: the section range of every entry starts at column 0 of its heading
\* line and ends at the end of the line before the first later heading of a
\* level at most its own, or at the end of the last line of the document.
C7_SectionRange ==
    toc.computed =>
        \A e \in 1..Len(toc.entries) :
            LET entry == toc.entries[e]
                range == entry.sectionLocation
                later == LaterNotDeeper(toc.entries, e)
                endLine == IF later = {} THEN Len(document) - 1
                           ELSE toc.entries[Least(later)].line - 1
            IN  /\ document[entry.line + 1].markup # <<>>
                /\ range.startLine = entry.line
                /\ range.startCharacter = 0
                /\ range.endLine = endLine
                /\ range.endCharacter = Len(document[endLine + 1].text)

\* a table where a section with a deeper heading in it ends before a later
\* heading of its own level, which is not on the next line
C7_Witness ==
    /\ toc.computed
    /\ \E e, j, k \in 1..Len(toc.entries) :
          /\ e < j /\ j < k
          /\ toc.entries[j].level > toc.entries[e].level
          /\ toc.entries[k].level = toc.entries[e].level
          /\ toc.entries[e].sectionLocation.endLine = toc.entries[k].line - 1
          /\ toc.entries[e].sectionLocation.endLine > toc.entries[j].line
          /\ toc.entries[e].sectionLocation.endCharacter = 0

\* the symbol whose children hold symbol k (0: the root)
ParentsOf(children, k) ==
    {p \in DOMAIN children : \E x \in 1..Len(children[p]) : children[p][x] = k}

\* the entries before k of a strictly smaller level
ShallowerBefore(entries, k) == {j \in 1..(k - 1) : entries[j].level < entries[k].level}

\* C8: in the symbol tree every symbol has one parent, the nearest preceding
\* entry of a strictly smaller level, or the root when there is none; two
\* consecutive headings of equal level have the same parent and neither is a
\* child of the other.
C8_ParentIsNearestShallower ==
    symbols.computed =>
        LET entries == toc.entries
            children == symbols.children
        IN  /\ Len(symbols.symbols) = Len(entries)
            /\ \A k \in 1..Len(entries) :
                   LET before == ShallowerBefore(entries, k)
                   IN  ParentsOf(children, k) =
                           {IF before = {} THEN 0 ELSE Greatest(before)}
            /\ \A k \in 1..(Len(entries) - 1) :
                   entries[k].level = entries[k + 1].level =>
                       /\ ParentsOf(children, k) = ParentsOf(children, k + 1)
                       /\ k \notin ParentsOf(children, k + 1)
                       /\ k + 1 \notin ParentsOf(children, k)

\* a tree where two consecutive headings of equal level are children of the
\* same heading
C8_Witness ==
    /\ symbols.computed
    /\ \E k \in 1..(Len(toc.entries) - 1) :
          /\ toc.entries[k].level = toc.entries[k + 1].level
          /\ \E p \in 1..Len(toc.entries) :
                 /\ p \in ParentsOf(symbols.children, k)
                 /\ p \in ParentsOf(symbols.children, k + 1)

\* the slug of the heading line of entry k, before any disambiguation
BaseSlug(k) == Slugify(document[toc.entries[k].line + 1].text)

\* the entries up to k of the same base slug as k
Occurrences(k) == {j \in 1..k : BaseSlug(j) = BaseSlug(k)}

\* C9: the first entry of a base slug s has the slug s, and its k-th entry has
\* the slug of s followed by "-" and k-1, counted for each base slug apart;
\* this holds of every table built of the document, the first or a later one.
C9_DuplicateSlugsCounted ==
    toc.computed =>
        \A k \in 1..Len(toc.entries) :
            LET n == Cardinality(Occurrences(k))
            IN  toc.entries[k].slug =
                    IF n = 1 THEN BaseSlug(k)
                    ELSE Slugify(BaseSlug(k) \o <<"-">> \o NumberToString(n - 1))

\* a table with three headings of one base slug, the third numbered 2, and a
\* heading of another base slug between them
C9_Witness ==
    /\ toc.computed
    /\ \E k \in 1..Len(toc.entries) :
          /\ Cardinality(Occurrences(k)) = 3
          /\ toc.entries[k].slug = BaseSlug(k) \o <<"-", "2">>
          /\ \E j \in 1..k : BaseSlug(j) # BaseSlug(k)

\* C10: no two entries of a table of contents have equal slugs.
C10_SlugsUnique ==
    toc.computed =>
        \A j, k \in 1..Len(toc.entries) :
            j # k => toc.entries[j].slug # toc.entries[k].slug


----------------------------------------------------------------------------
(* The stored associations *)

\* the stored associations of workspace w, in stored order
InfosOf(swi, w) == FilterSeq(swi, LAMBDA info : info.workspace = w)

\* the stored associations of the workspaces other than w, in stored order
InfosOfOthers(swi, w) == FilterSeq(swi, LAMBDA info : info.workspace # w)

\* a step that associates workspace w with profile p
Associates(p, w) ==
    /\ InfosOfOthers(storedWorskpaceInfos', w) = InfosOfOthers(storedWorskpaceInfos, w)
    /\ InfosOf(storedWorskpaceInfos', w) =
           IF p.isDefault THEN <<>> ELSE <<[workspace |-> w, profile |-> p.location]>>

\* a createProfile(_, w) call reaching its call of setProfileForWorkspace
CreateAssociates(i) ==
    /\ ops[i].workspace # NoWorkspace
    /\ ~JoinVetoed(ops[i])
    /\ CreateAfterJoin(i)

\* C12: there is at most one stored association per workspace, and
\* setProfileForWorkspace(p, w), called directly or by createProfile(_, w),
\* replaces the association of w, leaves those of every other workspace
\* unchanged, and stores none for w when p is the default profile
C12_AssociationsAreAFunction ==
    /\ [](\A w \in Workspaces : Len(InfosOf(storedWorskpaceInfos, w)) <= 1)
    /\ [][/\ \A p \in InputProfiles, w \in Workspaces :
                SetProfileForWorkspace(p, w) => Associates(p, w)
          /\ \A i \in OneCall :
                CreateAssociates(i) => Associates(ops[i].profile, ops[i].workspace)]_vars

\* both workspaces are associated, "w1" after "w2" and with the second location
C12_Witness ==
    storedWorskpaceInfos = << [workspace |-> "w2", profile |-> "L1"],
                              [workspace |-> "w1", profile |-> "L2"] >>

----------------------------------------------------------------------------
(* removeProfile and the associations *)

\* whether some stored association refers to the location of p
RefersTo(swi, p) == SomeSeq(swi, LAMBDA info : info.profile = p.location)

\* the workspaces with a stored association to the location of p
AssociatedWith(swi, p) ==
    { w \in Workspaces : RefersTo(InfosOf(swi, w), p) }

\* the stored associations to other locations than that of p, in stored order
InfosOfOtherProfiles(swi, p) == FilterSeq(swi, LAMBDA info : info.profile # p.location)

\* getProfile(w) after the step
GetProfileAfter(w) ==
    GetProfile(profilesObjectMemo', storedProfiles', storedWorskpaceInfos', w)

GetProfileNow(w) ==
    GetProfile(profilesObjectMemo, storedProfiles, storedWorskpaceInfos, w)

\* a createProfile call without a workspace argument reaching its write
CreateWithoutWorkspace(i) ==
    /\ ops[i].workspace = NoWorkspace
    /\ ~JoinVetoed(ops[i])
    /\ CreateAfterJoin(i)

\* C14: when removeProfile(p) commits, no stored association refers to the
\* location of p any more, the associations to other profiles are unchanged
\* and getProfile returns the default profile for every workspace that was
\* associated with p; a workspace without a stored association gets the
\* default profile, and a createProfile without a workspace argument stores no
\* association and changes getProfile for no workspace that has no stored
\* association to the created location
C14_RemoveClearsAssociations ==
    /\ [](\A w \in Workspaces :
             InfosOf(storedWorskpaceInfos, w) = <<>> => GetProfileNow(w) = DefaultProfile)
    /\ [][/\ \A i \in OneCall :
                RemoveAfterDel(i) =>
                    /\ ~RefersTo(storedWorskpaceInfos', ops[i].profile)
                    /\ InfosOfOtherProfiles(storedWorskpaceInfos', ops[i].profile) =
                           InfosOfOtherProfiles(storedWorskpaceInfos, ops[i].profile)
                    /\ \A w \in AssociatedWith(storedWorskpaceInfos, ops[i].profile) :
                           GetProfileAfter(w) = DefaultProfile
          /\ \A i \in OneCall :
                CreateWithoutWorkspace(i) =>
                    /\ storedWorskpaceInfos' = storedWorskpaceInfos
                    /\ \A w \in Workspaces \ AssociatedWith(storedWorskpaceInfos,
                                                              ops[i].profile) :
                           GetProfileAfter(w) = GetProfileNow(w)]_vars

\* "w1" was last associated with "L1", a removal of "L1" committed since, a
\* profile is stored at "L1" again, and another association is still stored
C14_Witness ==
    /\ associated["w1"] = [location |-> "L1", removed |-> TRUE]
    /\ SomeSeq(storedProfiles, LAMBDA p : p.location = "L1")
    /\ storedWorskpaceInfos = << [workspace |-> "w2", profile |-> "L2"] >>
    /\ GetProfileNow("w1") = DefaultProfile

----------------------------------------------------------------------------
(* getProfile and the history of the associations *)

\* the profile list: the default profile, then the stored profiles
CurrentProfiles ==
    <<DefaultProfile>> \o
    [k \in 1..Len(storedProfiles) |->
        [name |-> storedProfiles[k].name, location |-> storedProfiles[k].location,
         isDefault |-> FALSE]]

\* the profile of the list at location loc, a profile being identified by its
\* location as in the code; the default profile if there is none
ProfileAtOrDefault(loc) ==
    LET found == FindSeq(CurrentProfiles, LAMBDA p : p.location = loc)
    IN  IF found = Undefined THEN DefaultProfile ELSE found

InProfiles(profile) == SomeSeq(CurrentProfiles, LAMBDA p : p = profile)

\* C11 as stated: getProfile(w) is the profile last associated with w if it is
\* in the profile list, the default profile otherwise, and is in the list
C11_MostRecentlyAssociated ==
    \A w \in Workspaces :
        /\ GetProfileNow(w) =
               IF associated[w].location = NoResource
               THEN DefaultProfile
               ELSE ProfileAtOrDefault(associated[w].location)
        /\ InProfiles(GetProfileNow(w))

\* C11 amended: getProfile(w) is the profile last associated with w if it is
\* in the profile list and no removeProfile of its location has committed
\* since that association, the default profile otherwise, and is in the list
C11_MostRecentlyAssociatedUnlessRemoved ==
    \A w \in Workspaces :
        /\ GetProfileNow(w) =
               IF associated[w].location = NoResource \/ associated[w].removed
               THEN DefaultProfile
               ELSE ProfileAtOrDefault(associated[w].location)
        /\ InProfiles(GetProfileNow(w))

\* a profile is stored at "L1" again after its removal: "w1", associated with
\* it before the removal, gets the default profile and "w2", associated with
\* it after, gets the profile
C11_Witness ==
    /\ associated["w1"] = [location |-> "L1", removed |-> TRUE]
    /\ associated["w2"] = [location |-> "L1", removed |-> FALSE]
    /\ GetProfileNow("w1") = DefaultProfile
    /\ GetProfileNow("w2").location = "L1"

----------------------------------------------------------------------------
(* The flat list and the tree of symbols *)

\* the pre-order traversal of the trees rooted at the symbols of list
RECURSIVE PreOrderOf(_, _)
PreOrderOf(children, list) ==
    IF list = <<>> THEN <<>>
    ELSE <<Head(list)>> \o PreOrderOf(children, children[Head(list)])
                       \o PreOrderOf(children, Tail(list))

\* C13: the pre-order traversal of the tree of provideDocumentSymbols yields
\* the entries of the table of contents in document order, each once, and
\* every symbol has the name and the section range that the flat list of
\* provideDocumentSymbolInformation gives for the same entry
C13_TreeAndFlatListAgree ==
    (symbols.computed /\ symbolInfos.computed) =>
        LET n == Len(toc.entries)
            order == PreOrderOf(symbols.children, symbols.children[0])
        IN  /\ Len(symbolInfos.infos) = n
            /\ order = [k \in 1..n |-> k]
            /\ \A k \in 1..n :
                  /\ symbols.symbols[k].name = symbolInfos.infos[k].name
                  /\ symbols.symbols[k].range = symbolInfos.infos[k].location
                  /\ symbolInfos.infos[k].location.startLine = toc.entries[k].line
            /\ \A j, k \in 1..n : j < k => toc.entries[j].line < toc.entries[k].line

\* both results are computed for a document whose tree has two symbols at
\* the top, one of them with a child whose section is shorter than its own
C13_Witness ==
    /\ symbols.computed /\ symbolInfos.computed
    /\ Len(symbols.children[0]) >= 2
    /\ \E k \in 1..Len(toc.entries) :
          /\ symbols.children[k] # <<>>
          /\ symbols.symbols[k].range # symbols.symbols[symbols.children[k][1]].range

----------------------------------------------------------------------------
(* The tree of symbols and the section ranges *)

\* position (l1, c1) is at or before position (l2, c2)
AtOrBefore(l1, c1, l2, c2) == l1 < l2 \/ (l1 = l2 /\ c1 <= c2)

\* range outer contains range inner
ContainsRange(outer, inner) ==
    /\ AtOrBefore(outer.startLine, outer.startCharacter,
                  inner.startLine, inner.startCharacter)
    /\ AtOrBefore(inner.endLine, inner.endCharacter, outer.endLine, outer.endCharacter)

\* range first ends before range second starts
EndsBefore(first, second) ==
    ~AtOrBefore(second.startLine, second.startCharacter,
                first.endLine, first.endCharacter)

HeadingsInLineOrder(entries) ==
    \A j, k \in 1..Len(entries) : j < k => entries[j].line < entries[k].line

\* C20: in the tree of provideDocumentSymbols the range of every symbol
\* contains the range of each of its children, and of two symbols with the
\* same parent (the root included) the earlier ends before the later starts
C20_TreeConsistentWithRanges ==
    (symbols.computed /\ HeadingsInLineOrder(toc.entries)) =>
        \A p \in 0..Len(symbols.symbols) :
            LET sub == symbols.children[p]
            IN  /\ p # 0 =>
                      \A c \in 1..Len(sub) :
                          ContainsRange(symbols.symbols[p].range,
                                        symbols.symbols[sub[c]].range)
                /\ \A c, d \in 1..Len(sub) :
                      c < d => EndsBefore(symbols.symbols[sub[c]].range,
                                          symbols.symbols[sub[d]].range)

\* a tree where a symbol has two children, the first of a deeper level than
\* the second, and is itself followed by a sibling
C20_Witness ==
    /\ symbols.computed
    /\ \E p \in 1..Len(symbols.symbols) :
          /\ Len(symbols.children[p]) = 2
          /\ toc.entries[symbols.children[p][1]].level >
                 toc.entries[symbols.children[p][2]].level
          /\ \E q \in (p + 1)..Len(symbols.symbols) :
                 \E c \in 1..Len(symbols.children[0]) : symbols.children[0][c] = q

----------------------------------------------------------------------------
(* The memoized profiles object *)

\* the stored associations of w that refer to a profile of the list
InfosInList(w) ==
    FilterSeq(InfosOf(storedWorskpaceInfos, w),
              LAMBDA info : SomeSeq(CurrentProfiles, LAMBDA p : p.location = info.profile))

\* the profile the stored associations give workspace w, if any
AssociatedProfile(w) ==
    IF InfosInList(w) = <<>> THEN Undefined
    ELSE ProfileAtOrDefault(InfosInList(w)[Len(InfosInList(w))].profile)

\* C18: whenever the profiles object is memoized, its profiles are the
\* default profile followed by the stored profiles in stored order, and its
\* workspace map is the stored associations restricted to the profiles of
\* that list
C18_MemoNeverStale ==
    profilesObjectMemo # Undefined =>
        /\ profilesObjectMemo.profiles = CurrentProfiles
        /\ \A w \in Workspaces : profilesObjectMemo.workspaces[w] = AssociatedProfile(w)

\* a memoized object after both keys were written: two stored profiles, "w2"
\* mapped to one of them, and an association of "w1" left out of the map
C18_Witness ==
    /\ profilesObjectMemo # Undefined
    /\ Len(storedProfiles) = 2
    /\ profilesObjectMemo.workspaces["w2"] # Undefined
    /\ InfosOf(storedWorskpaceInfos, "w1") # <<>>
    /\ profilesObjectMemo.workspaces["w1"] = Undefined

----------------------------------------------------------------------------
(* Referential integrity of the stored associations *)

\* C19: every stored association refers to the location of a profile of the
\* stored profile list
C19_AssociationsReferToStoredProfiles ==
    \A k \in 1..Len(storedWorskpaceInfos) :
        SomeSeq(storedProfiles, LAMBDA p : p.location = storedWorskpaceInfos[k].profile)

----------------------------------------------------------------------------
(* Overlapping createProfile and removeProfile calls *)

\* the profiles the overlapping calls are about
OverlapProfiles ==
    { [name |-> "a", location |-> "L1", isDefault |-> FALSE],
      [name |-> "b", location |-> "L2", isDefault |-> FALSE] }

\* up to MaxOps calls in flight together, each suspended at any of its awaits;
\* no listener joins a promise, the await of Promises.settled still suspends
NextOverlap ==
    \/ \E i \in Slots, profile \in OverlapProfiles :
          CreateProfile(Slots, i, profile, NoWorkspace)
    \/ \E i \in Slots : CreateAfterExists(i, 0)
    \/ \E i \in Slots : CreateAfterCreateFolder(i, 0)
    \/ \E i \in Slots : CreateAfterJoin(i)
    \/ \E i \in Slots, profile \in OverlapProfiles : RemoveProfile(Slots, i, profile, 0)
    \/ \E i \in Slots : RemoveAfterJoin(i)
    \/ \E i \in Slots : FileServiceDel(i)
    \/ \E i \in Slots : RemoveAfterDel(i)

SpecOverlap == Init /\ [][NextOverlap]_vars

\* C15: the stored profile list never holds two profiles of the same name
C15_NamesUnique ==
    \A j, k \in 1..Len(storedProfiles) :
        j # k => storedProfiles[j].name # storedProfiles[k].name

\* C16: a removeProfile that commits has deleted the profiles root folder
\* exactly if it leaves no profile in the stored list
C16_RootDeletionConsistent ==
    [][\A i \in Slots :
          RemoveAfterDel(i) => (ops[i].del = ProfilesHome <=> storedProfiles' = <<>>)]_vars


\* the stored profiles at other locations than that of p, in stored order
StoredElsewhere(sp, p) == FilterSeq(sp, LAMBDA stored : stored.location # p.location)

\* C17: a createProfile that commits adds its own entry after all the entries
\* stored at that moment, a removeProfile that commits takes out the entries
\* of its own location and keeps every other entry in place, and no other
\* step of any call changes the stored list; so the list always holds the
\* entries of the creates that committed, less those of the removes that did
C17_NoLostUpdate ==
    [][/\ \A i \in Slots :
             (~JoinVetoed(ops[i]) /\ CreateAfterJoin(i)) =>
                 /\ Len(storedProfiles') = Len(storedProfiles) + 1
                 /\ SubSeq(storedProfiles', 1, Len(storedProfiles)) = storedProfiles
                 /\ storedProfiles'[Len(storedProfiles')].name = ops[i].profile.name
                 /\ storedProfiles'[Len(storedProfiles')].location = ops[i].profile.location
       /\ \A i \in Slots :
             RemoveAfterDel(i) =>
                 storedProfiles' = StoredElsewhere(storedProfiles, ops[i].profile)
       /\ (\A i \in Slots : ~CreateAfterJoin(i) /\ ~RemoveAfterDel(i)) =>
             storedProfiles' = storedProfiles]_vars

\* a createProfile of "b" and a removeProfile of "a" that overlapped have both
\* completed: "b" is stored, "a" is not
C17_Witness ==
    /\ ops[1].kind = "create" /\ ops[1].pc = "done"
    /\ ops[2].kind = "remove" /\ ops[2].pc = "done"
    /\ storedProfiles = << [name |-> "b", location |-> "L2"] >>

====
